---- MODULE Spec2Model ----
(***************************************************************************)
(* The retrieval pipeline of the repository as a state machine.            *)
(*                                                                         *)
(*   database.py  the index build: load_documents, split_documents,        *)
(*                save_to_chroma (one process run per build)               *)
(*   query.py     the query path: main (one process run per query)         *)
(*   reader.py    GitHubReadmeExtractor.extract_readme_files               *)
(*                                                                         *)
(* The persisted index at chroma_db is the only state the build and the    *)
(* query share.  The document loader, the embedding service, the vector    *)
(* store and the completion service are libraries: each call is one step   *)
(* that either returns or raises.  Relevance scores are tenths (0..10).    *)
(***************************************************************************)
EXTENDS Integers, Sequences, FiniteSets, TLC

VARIABLES
    disk,            \* chroma_db: [exists, entries]
    bpc,             \* database.py: position of the build run
    documents,       \* generate_data_store: documents
    chunks,          \* generate_data_store: chunks
    berr,            \* the exception that ended the build run, or "none"
    builds,          \* build runs started
    prevDisk,        \* chroma_db as it was when the build run started
    lastSaved,       \* chunks of the last save_to_chroma that returned
    fresh,           \* no later save_to_chroma has touched chroma_db since
    qpc,             \* query.py: position of the query run
    min_relevance,   \* the relevance threshold the caller wants applied
    qExisted,        \* whether chroma_db existed when the query opened it
    results,         \* main: results
    context,         \* main: context_text
    sources,         \* main: sources
    completions,     \* calls of llm.invoke in this query run
    outcome,         \* how the query run ended, or "none"
    queries,         \* query runs started
    rpc,             \* reader.py: position in extract_readme_files
    total_found,     \* len(readme_files)
    ridx,            \* READMEs handled so far by the loop
    filename_counts, \* extract_readme_files: filename_counts
    extracted_files, \* extract_readme_files: saved_as of extracted_files
    success_count    \* extract_readme_files: success_count

ragVars == <<disk, bpc, documents, chunks, berr, builds, prevDisk, lastSaved,
             fresh, qpc, min_relevance, qExisted, results, context, sources,
             completions, outcome, queries>>

readerVars == <<rpc, total_found, ridx, filename_counts, extracted_files,
                success_count>>

vars == <<ragVars, readerVars>>

buildVars == <<bpc, documents, chunks, berr, builds, prevDisk, lastSaved, fresh>>

queryVars == <<qpc, min_relevance, qExisted, results, context, sources,
               completions, outcome, queries>>

----------------------------------------------------------------------------
(* Bounds of the model *)

MaxBuilds == 2

MaxQueries == 2

MaxReadmes == 4

----------------------------------------------------------------------------
(* Program constants *)

ChunkSize == 500

ChunkOverlap == 150

PrintedChunk == 10

K == 3

Delimiter == "\n\n---\n\n"

----------------------------------------------------------------------------
(* The document source: data/books/*.md.  A document is its source path    *)
(* and the length of its text; the text has no separator in it, so the     *)
(* splitter falls through to fixed windows.                                *)

SourcePaths == <<"a.md", "b.md">>

DocLengths == {120, 2000, 4000}

DocChoice == [present : BOOLEAN, len : DocLengths]

RECURSIVE LoadedFrom(_, _)
LoadedFrom(pick, i) ==
    IF i > Len(SourcePaths) THEN <<>>
    ELSE (IF pick[i].present
          THEN <<[source |-> SourcePaths[i], len |-> pick[i].len]>>
          ELSE <<>>) \o LoadedFrom(pick, i + 1)

DocSets == {LoadedFrom(pick, 1) : pick \in [1..Len(SourcePaths) -> DocChoice]}

(* RecursiveCharacterTextSplitter(chunk_size, chunk_overlap,               *)
(* add_start_index=True) on one document: windows of chunk_size that       *)
(* advance by chunk_size - chunk_overlap; the last one holds what is left. *)
Min(a, b) == IF a < b THEN a ELSE b

RECURSIVE SplitFrom(_, _)
SplitFrom(doc, start) ==
    LET piece == [source |-> doc.source, start |-> start,
                  len |-> Min(ChunkSize, doc.len - start)]
    IN  IF doc.len = 0 THEN <<>>
        ELSE IF start + ChunkSize >= doc.len THEN <<piece>>
        ELSE <<piece>> \o SplitFrom(doc, start + (ChunkSize - ChunkOverlap))

RECURSIVE SplitAll(_)
SplitAll(docs) ==
    IF docs = <<>> THEN <<>>
    ELSE SplitFrom(Head(docs), 0) \o SplitAll(Tail(docs))

Range(s) == {s[i] : i \in DOMAIN s}

----------------------------------------------------------------------------
(* The persisted index *)

NoIndex == [exists |-> FALSE, entries |-> <<>>]

EmptyIndex == [exists |-> TRUE, entries |-> <<>>]

(* Chroma(persist_directory=...): opens the store, creating an empty one   *)
(* when the directory is missing.                                          *)
Opened(d) == IF d.exists THEN d ELSE EmptyIndex

----------------------------------------------------------------------------
(* Similarity search.  The embedding service decides the score of a chunk  *)
(* for the query; this stand-in is a fixed function of the chunk, with     *)
(* ties.  The store returns the k best entries (all of them when it holds  *)
(* fewer), best first; the order among equal scores is the store's choice. *)

Relevance(c) ==
    ((c.start \div (ChunkSize - ChunkOverlap)) * 3
        + (IF c.source = "a.md" THEN 0 ELSE 4)
        + (c.len \div 100)) % 10

RECURSIVE TopKFrom(_, _, _)
TopKFrom(entries, taken, k) ==
    LET rest == DOMAIN entries \ taken
        best == {p \in rest :
                    \A q \in rest : Relevance(entries[q]) <= Relevance(entries[p])}
    IN  IF k = 0 \/ rest = {} THEN {<<>>}
        ELSE UNION {{<<[chunk |-> entries[p], score |-> Relevance(entries[p])]>> \o s :
                        s \in TopKFrom(entries, taken \cup {p}, k - 1)} : p \in best}

SimilaritySearch(entries, k) == TopKFrom(entries, {}, k)

(* "\n\n---\n\n".join([doc.page_content for doc, _score in results]): the  *)
(* page content of a chunk is the window of its document.                  *)
PageContent(c) == c.source \o "@" \o ToString(c.start) \o "+" \o ToString(c.len)

RECURSIVE JoinContext(_)
JoinContext(rs) ==
    IF rs = <<>> THEN <<>>
    ELSE IF Len(rs) = 1 THEN <<PageContent(rs[1].chunk)>>
    ELSE <<PageContent(rs[1].chunk), Delimiter>> \o JoinContext(Tail(rs))

(* a sources list that names each document once, in first-seen order *)
RECURSIVE Deduplicated(_)
Deduplicated(rs) ==
    IF rs = <<>> THEN <<>>
    ELSE LET front == Deduplicated(SubSeq(rs, 1, Len(rs) - 1))
             src == rs[Len(rs)].chunk.source
         IN  IF src \in Range(front) THEN front ELSE Append(front, src)

(* [doc.metadata.get("source", None) for doc, _score in results] *)
SourcesOf(rs) == [i \in DOMAIN rs |-> rs[i].chunk.source]

----------------------------------------------------------------------------
(* database.py: one run of generate_data_store per build *)

BuildEnded == bpc \in {"idle", "done", "failed"}

Rebuilding == bpc \in {"loaded", "split", "removed", "created", "embedded", "written"}

(* documents = load_documents() *)
LoadDocuments ==
    /\ BuildEnded
    /\ builds < MaxBuilds
    /\ \E docs \in DocSets : documents' = docs
    /\ bpc' = "loaded"
    /\ chunks' = <<>>
    /\ berr' = "none"
    /\ builds' = builds + 1
    /\ prevDisk' = disk
    /\ UNCHANGED <<disk, lastSaved, fresh, queryVars, readerVars>>

(* loader.load() raises *)
LoadDocumentsFails ==
    /\ BuildEnded
    /\ builds < MaxBuilds
    /\ documents' = <<>>
    /\ bpc' = "failed"
    /\ chunks' = <<>>
    /\ berr' = "LoadError"
    /\ builds' = builds + 1
    /\ prevDisk' = disk
    /\ UNCHANGED <<disk, lastSaved, fresh, queryVars, readerVars>>

(* chunks = split_documents(documents): splits, then prints chunks[10] *)
SplitDocuments ==
    /\ bpc = "loaded"
    /\ chunks' = SplitAll(documents)
    /\ IF Len(chunks') > PrintedChunk
       THEN bpc' = "split" /\ berr' = berr
       ELSE bpc' = "failed" /\ berr' = "IndexError"
    /\ UNCHANGED <<disk, documents, builds, prevDisk, lastSaved, fresh,
                   queryVars, readerVars>>

(* a save_to_chroma that leaves the old directory in place *)
SaveKeepsOld ==
    /\ bpc = "split"
    /\ bpc' = "removed"
    /\ fresh' = FALSE
    /\ UNCHANGED <<disk, documents, chunks, berr, builds, prevDisk, lastSaved,
                   queryVars, readerVars>>

(* if os.path.exists(CHROMA_DB_PATH): shutil.rmtree(CHROMA_DB_PATH) *)
SaveRemove ==
    /\ bpc = "split"
    /\ disk' = IF disk.exists THEN NoIndex ELSE disk
    /\ bpc' = "removed"
    /\ fresh' = FALSE
    /\ UNCHANGED <<documents, chunks, berr, builds, prevDisk, lastSaved,
                   queryVars, readerVars>>

(* Chroma.from_documents: the store is opened (created when missing) *)
SaveCreate ==
    /\ bpc = "removed"
    /\ disk' = Opened(disk)
    /\ bpc' = "created"
    /\ UNCHANGED <<documents, chunks, berr, builds, prevDisk, lastSaved, fresh,
                   queryVars, readerVars>>

(* Chroma.from_documents: every chunk is embedded *)
SaveEmbed ==
    /\ bpc = "created"
    /\ bpc' = "embedded"
    /\ UNCHANGED <<disk, documents, chunks, berr, builds, prevDisk, lastSaved,
                   fresh, queryVars, readerVars>>

(* Chroma.from_documents: the embedding service raises *)
SaveEmbedFails ==
    /\ bpc = "created"
    /\ bpc' = "failed"
    /\ berr' = "EmbeddingError"
    /\ UNCHANGED <<disk, documents, chunks, builds, prevDisk, lastSaved, fresh,
                   queryVars, readerVars>>

(* Chroma.from_documents: the chunks are added to the collection *)
SaveUpsert ==
    /\ bpc = "embedded"
    /\ disk' = [exists |-> TRUE, entries |-> disk.entries \o chunks]
    /\ bpc' = "written"
    /\ UNCHANGED <<documents, chunks, berr, builds, prevDisk, lastSaved, fresh,
                   queryVars, readerVars>>

(* Chroma.from_documents: the write raises *)
SaveUpsertFails ==
    /\ bpc = "embedded"
    /\ bpc' = "failed"
    /\ berr' = "StorageError"
    /\ UNCHANGED <<disk, documents, chunks, builds, prevDisk, lastSaved, fresh,
                   queryVars, readerVars>>

(* db.persist(); print(...); save_to_chroma returns *)
SavePersist ==
    /\ bpc = "written"
    /\ bpc' = "done"
    /\ lastSaved' = chunks
    /\ fresh' = TRUE
    /\ UNCHANGED <<disk, documents, chunks, berr, builds, prevDisk,
                   queryVars, readerVars>>

BuildNext ==
    \/ LoadDocuments
    \/ LoadDocumentsFails
    \/ SplitDocuments
    \/ SaveRemove
    \/ SaveCreate
    \/ SaveEmbed
    \/ SaveEmbedFails
    \/ SaveUpsert
    \/ SaveUpsertFails
    \/ SavePersist

----------------------------------------------------------------------------
(* query.py: one run of main per query *)

MinRelevanceChoices == {5, 10}

QueryEnded == qpc \in {"idle", "done"}

(* db = Chroma(persist_directory=CHROMA_DB_PATH, ...) *)
QueryOpen ==
    /\ QueryEnded
    /\ queries < MaxQueries
    /\ \E m \in MinRelevanceChoices : min_relevance' = m
    /\ qExisted' = disk.exists
    /\ disk' = Opened(disk)
    /\ qpc' = "opened"
    /\ results' = <<>>
    /\ context' = <<>>
    /\ sources' = <<>>
    /\ completions' = 0
    /\ outcome' = "none"
    /\ queries' = queries + 1
    /\ UNCHANGED <<buildVars, readerVars>>

(* results = db.similarity_search_with_relevance_scores(query, k=3) *)
QuerySearch ==
    /\ qpc = "opened"
    /\ \E r \in SimilaritySearch(disk.entries, K) : results' = r
    /\ qpc' = "searched"
    /\ UNCHANGED <<disk, buildVars, min_relevance, qExisted, context, sources,
                   completions, outcome, queries, readerVars>>

(* the embedding of the query raises *)
QuerySearchFails ==
    /\ qpc = "opened"
    /\ qpc' = "done"
    /\ outcome' = "EmbeddingError"
    /\ UNCHANGED <<disk, buildVars, min_relevance, qExisted, results, context,
                   sources, completions, queries, readerVars>>

(* if len(results) == 0: print("Unable to find Relevance"); return *)
QueryNoResults ==
    /\ qpc = "searched"
    /\ Len(results) = 0
    /\ qpc' = "done"
    /\ outcome' = "Unable to find Relevance"
    /\ UNCHANGED <<disk, buildVars, min_relevance, qExisted, results, context,
                   sources, completions, queries, readerVars>>

(* context_text = ...join(...); prompt = prompt_template.format(...) *)
QueryPrompt ==
    /\ qpc = "searched"
    /\ Len(results) # 0
    /\ context' = JoinContext(results)
    /\ qpc' = "prompted"
    /\ UNCHANGED <<disk, buildVars, min_relevance, qExisted, results, sources,
                   completions, outcome, queries, readerVars>>

(* response = llm.invoke(prompt) *)
QueryInvoke ==
    /\ qpc = "prompted"
    /\ completions' = completions + 1
    /\ qpc' = "invoked"
    /\ UNCHANGED <<disk, buildVars, min_relevance, qExisted, results, context,
                   sources, outcome, queries, readerVars>>

(* a main that calls llm.invoke again after it raised *)
QueryInvokeRetries ==
    /\ qpc = "prompted"
    /\ completions' = completions + 1
    /\ UNCHANGED <<disk, buildVars, qpc, min_relevance, qExisted, results,
                   context, sources, outcome, queries, readerVars>>

(* llm.invoke(prompt) raises: the exception leaves main *)
QueryInvokeFails ==
    /\ qpc = "prompted"
    /\ completions' = completions + 1
    /\ qpc' = "done"
    /\ outcome' = "GenerationError"
    /\ UNCHANGED <<disk, buildVars, min_relevance, qExisted, results, context,
                   sources, queries, readerVars>>

(* sources = [...]; print(formatted_response) *)
QueryPrint ==
    /\ qpc = "invoked"
    /\ sources' = SourcesOf(results)
    /\ qpc' = "done"
    /\ outcome' = "answered"
    /\ UNCHANGED <<disk, buildVars, min_relevance, qExisted, results, context,
                   completions, queries, readerVars>>

QueryNext ==
    \/ QueryOpen
    \/ QuerySearch
    \/ QuerySearchFails
    \/ QueryNoResults
    \/ QueryPrompt
    \/ QueryInvoke
    \/ QueryInvokeFails
    \/ QueryPrint

----------------------------------------------------------------------------
(* reader.py: one run of GitHubReadmeExtractor.extract_readme_files.  The  *)
(* base filename of a README is what generate_filename_from_content or     *)
(* sanitize_filename returns for it: lower-case words joined by "_".       *)

BaseNames == {"intro", "intro_1", "setup"}

(* filename_counts[base_filename] after the README is named *)
CountedAgain(counts, base) ==
    IF base \in DOMAIN counts
    THEN [counts EXCEPT ![base] = counts[base] + 1]
    ELSE [b \in DOMAIN counts \cup {base} |-> IF b = base THEN 0 ELSE counts[b]]

(* final_filename: f"{base_filename}_{n}.md" for a repeated base name,     *)
(* f"{base_filename}.md" for a new one                                     *)
FinalFilename(counts, base) ==
    IF base \in DOMAIN counts
    THEN base \o "_" \o ToString(counts[base] + 1) \o ".md"
    ELSE base \o ".md"

(* readme_files = self.find_readme_files(...); the early return when none *)
ReaderFind ==
    /\ rpc = "start"
    /\ \E n \in 0..MaxReadmes : total_found' = n
    /\ rpc' = IF total_found' = 0 THEN "nofiles" ELSE "loop"
    /\ UNCHANGED <<ridx, filename_counts, extracted_files, success_count, ragVars>>

(* content = self.download_file_content(...) is None or empty *)
ReaderDownloadFails ==
    /\ rpc = "loop"
    /\ ridx < total_found
    /\ ridx' = ridx + 1
    /\ UNCHANGED <<rpc, total_found, filename_counts, extracted_files,
                   success_count, ragVars>>

(* the README is named, written and recorded *)
ReaderSave ==
    /\ rpc = "loop"
    /\ ridx < total_found
    /\ \E base \in BaseNames :
        /\ filename_counts' = CountedAgain(filename_counts, base)
        /\ extracted_files' = Append(extracted_files, FinalFilename(filename_counts, base))
    /\ success_count' = success_count + 1
    /\ ridx' = ridx + 1
    /\ UNCHANGED <<rpc, total_found, ragVars>>

(* the README is named, and open() or write() raises *)
ReaderSaveFails ==
    /\ rpc = "loop"
    /\ ridx < total_found
    /\ \E base \in BaseNames : filename_counts' = CountedAgain(filename_counts, base)
    /\ ridx' = ridx + 1
    /\ UNCHANGED <<rpc, total_found, extracted_files, success_count, ragVars>>

(* summary = {...}; json.dump(summary, ...); return summary *)
ReaderSummary ==
    /\ rpc = "loop"
    /\ ridx = total_found
    /\ rpc' = "done"
    /\ UNCHANGED <<total_found, ridx, filename_counts, extracted_files,
                   success_count, ragVars>>

ReaderNext ==
    \/ ReaderFind
    \/ ReaderDownloadFails
    \/ ReaderSave
    \/ ReaderSaveFails
    \/ ReaderSummary

----------------------------------------------------------------------------
(* The build and the query are separate processes on one chroma_db. *)

RagInit ==
    /\ disk = NoIndex
    /\ bpc = "idle"
    /\ documents = <<>>
    /\ chunks = <<>>
    /\ berr = "none"
    /\ builds = 0
    /\ prevDisk = NoIndex
    /\ lastSaved = <<>>
    /\ fresh = FALSE
    /\ qpc = "idle"
    /\ min_relevance = 0
    /\ qExisted = FALSE
    /\ results = <<>>
    /\ context = <<>>
    /\ sources = <<>>
    /\ completions = 0
    /\ outcome = "none"
    /\ queries = 0

ReaderInit ==
    /\ rpc = "start"
    /\ total_found = 0
    /\ ridx = 0
    /\ filename_counts = <<>>
    /\ extracted_files = <<>>
    /\ success_count = 0

Init == RagInit /\ ReaderInit

Next == BuildNext \/ QueryNext

Spec == Init /\ [][Next]_vars

ReaderSpec == Init /\ [][ReaderNext]_vars

----------------------------------------------------------------------------
(* Properties *)

(* C1: while the index written by the last save_to_chroma that returned    *)
(* stands (no later save has begun), chroma_db holds exactly the chunks of *)
(* that build, and every result of a search run then is one of them: no    *)
(* chunk indexed only by an earlier build is returned.                     *)
C1_SearchSeesOnlyLatestBuild ==
    /\ [](fresh => (disk.exists /\ disk.entries = lastSaved))
    /\ [][(qpc = "opened" /\ qpc' = "searched" /\ fresh)
            => \A i \in DOMAIN results' : results'[i].chunk \in Range(lastSaved)]_vars

(* C1 witness: a second build has returned, it dropped a chunk the first   *)
(* build had indexed, and a search has returned three results, one of them *)
(* a chunk the first build did not have.                                   *)
C1_Witness ==
    /\ builds = 2
    /\ bpc = "done"
    /\ fresh
    /\ qpc = "searched"
    /\ Len(results) = K
    /\ \E c \in Range(prevDisk.entries) : c \notin Range(lastSaved)
    /\ \E i \in DOMAIN results : results[i].chunk \notin Range(prevDisk.entries)

(* C2: a rebuild that failed leaves chroma_db holding either the complete  *)
(* previous index or the complete new one.                                 *)
C2_FailedRebuildLeavesOldOrNew ==
    bpc = "failed" =>
        \/ disk.entries = prevDisk.entries /\ (prevDisk.exists => disk.exists)
        \/ disk.exists /\ disk.entries = chunks

(* C3: a search that runs while a rebuild is under way reads either the    *)
(* complete old index or the complete new one.                             *)
C3_ConcurrentSearchSeesOldOrNew ==
    [][(qpc = "opened" /\ qpc' = "searched" /\ Rebuilding)
        => \/ disk.entries = prevDisk.entries
           \/ bpc \in {"split", "removed", "created", "embedded", "written"}
                /\ disk.entries = chunks]_vars

(* C4: for every document set, the empty one and those of few chunks       *)
(* included, the build fails only when a collaborator failed, and a build  *)
(* that completed has persisted exactly the chunks of the chunker.         *)
C4_BuildCompletesForEveryDocumentSet ==
    /\ bpc = "failed" => berr \in {"LoadError", "EmbeddingError", "StorageError"}
    /\ bpc = "done" => (disk.entries = chunks /\ chunks = SplitAll(documents))

(* C5: a query that ends with the no-relevant-results outcome ran against  *)
(* an index that existed: a missing index is not reported that way.        *)
C5_NoIndexIsNotNoRelevantResults ==
    (qpc = "done" /\ outcome = "Unable to find Relevance") => qExisted

(* C6: no result with a score below min_relevance reaches the prompt       *)
(* context, and a query whose results all score below it ends with the     *)
(* no-relevant-results outcome and no completion call.                     *)
C6_ResultsBelowThresholdAreDropped ==
    /\ context # <<>> => \A i \in DOMAIN results : results[i].score >= min_relevance
    /\ (qpc = "done" /\ results # <<>>
            /\ \A i \in DOMAIN results : results[i].score < min_relevance)
        => (outcome = "Unable to find Relevance" /\ completions = 0)

(* C7: for n >= 1 results the prompt context is the n chunk texts in       *)
(* result order with the delimiter between neighbours, and the sources     *)
(* list of an answered query has n elements, sources[i] the source path of *)
(* results[i], duplicates and order kept.                                  *)
C7_SourcesAndContextMirrorResults ==
    /\ (qpc \in {"prompted", "invoked"} \/ outcome \in {"answered", "GenerationError"})
        => /\ Len(results) >= 1
           /\ Len(context) = 2 * Len(results) - 1
           /\ \A i \in DOMAIN results : context[2 * i - 1] = PageContent(results[i].chunk)
           /\ \A i \in 1..(Len(results) - 1) : context[2 * i] = "\n\n---\n\n"
    /\ outcome = "answered"
        => /\ Len(sources) = Len(results)
           /\ \A i \in DOMAIN results : sources[i] = results[i].chunk.source

(* C7 witness: an answered query with three results, two of them from the  *)
(* same document and one from another.                                     *)
C7_Witness ==
    /\ outcome = "answered"
    /\ Len(results) = K
    /\ \E i, j \in DOMAIN sources : i # j /\ sources[i] = sources[j]
    /\ \E i, j \in DOMAIN sources : sources[i] # sources[j]

(* C9: a query run calls the completion service at most once: once before  *)
(* an answer is printed, after the prompt context is assembled; not at all *)
(* when the result list is empty; and once, with no second call, when the  *)
(* call fails and the failure ends the run.                                *)
C9_CompletionCalledAtMostOnce ==
    /\ completions <= 1
    /\ completions = 1 => (results # <<>> /\ context # <<>>)
    /\ outcome = "answered" => completions = 1
    /\ outcome = "GenerationError" => (completions = 1 /\ qpc = "done")
    /\ (qpc = "done" /\ results = <<>>) => completions = 0
    /\ (qpc \in {"invoked"} \/ (qpc = "done" /\ results # <<>>)) => completions = 1

(* C9 witness: a query whose completion call failed has ended. *)
C9_Witness ==
    /\ qpc = "done"
    /\ outcome = "GenerationError"
    /\ completions = 1
    /\ Len(results) = K

(* C10: when extract_readme_files returns its summary, the saved_as names  *)
(* are pairwise distinct, successfully_extracted is the number of entries  *)
(* of files, and it is at most total_found.                                *)
C10_SavedFilenamesDistinct ==
    rpc = "done" =>
        /\ \A i, j \in DOMAIN extracted_files :
                i # j => extracted_files[i] # extracted_files[j]
        /\ success_count = Len(extracted_files)
        /\ success_count <= total_found

====
